---- MODULE Spec2Model ----
(***************************************************************************)
(* AxleWatch transmitter (src/AxleWatch-TX-main.cpp): the sensor           *)
(* identification state machine, the persisted configuration and the       *)
(* telemetry packet encoder, as a state machine.                           *)
(*                                                                         *)
(* Temperatures are integers in 1/80 degC: the DS18B20 at 12 bit reports   *)
(* multiples of 1/16 degC (5 units) and one printed decimal is 8 units, so *)
(* both the sensor's readings and one-decimal values are exact.            *)
(***************************************************************************)
EXTENDS Integers, Sequences, FiniteSets, TLC

VARIABLES
  eeprom,             \* EEPROM bytes 0 .. EEPROM_POWER_MODE_ADDR
  sensorConfig,       \* sensorConfig.sensors: slot 0..9 -> 8 address bytes
  activeSensorCount,  \* uint8_t activeSensorCount
  sensorsConfigured,  \* bool sensorsConfigured
  loadReport,         \* which message loadSensorConfig printed at boot
  pc,                 \* position of the single control flow
  deviceCount,        \* sensors.getDeviceCount(), fixed by sensors.begin()
  baselines,          \* float baselines[16] of scanAndIdentifySensors
  sample,             \* temperatures read in the latest sampling pass
  identifiedSensor,   \* int identifiedSensor (-1 before/without a touch)
  pos,                \* int pos of the position loop
  elapsed,            \* millis() - startTime / millis() - waitStart
  buttonPressed,      \* bool buttonPressed of the position loop
  eepromAtEntry,      \* history: the EEPROM when the setup invocation began
  invocations,        \* history: setup invocations begun so far
  lastSaved,          \* history: the table and count of the latest save
  temps,              \* latestData.temps[0..9]
  transmitterID,      \* uint16_t transmitterID
  packet,             \* the characters last handed to LoRa.print
  powerSaveMode,      \* bool powerSaveMode
  hold,               \* history: ms the button stayed LOW in the latest pass
  postedID,           \* history: transmitterID of the latest POST /api/config
  deviceName,         \* char deviceName[32], as 32 byte values
  now,                \* millis() as loop() last read it, in ticks, modulo 2^32 ms
  lastTransmitTime,   \* unsigned long lastTransmitTime, in ticks
  totalPackets,       \* loraStats.totalPackets
  sinceCycle,         \* history: real ticks since the latest cycle or the boot
  runTime,            \* history: real ticks followed since the first state
  dupCall             \* isDuplicateSensor called on its own: arguments, result

vars == <<eeprom, sensorConfig, activeSensorCount, sensorsConfigured, loadReport,
          pc, deviceCount, baselines, sample, identifiedSensor, pos, elapsed,
          buttonPressed, eepromAtEntry, invocations, lastSaved, temps,
          transmitterID, packet, powerSaveMode, hold, postedID, deviceName,
          now, lastTransmitTime, totalPackets, sinceCycle, runTime, dupCall>>

\* what the scheduler of loop() and the statistics keep
clockVars == <<now, lastTransmitTime, totalPackets, sinceCycle, runTime>>

\* the state outside the sensor setup
runVars == <<deviceName, now, lastTransmitTime, totalPackets, sinceCycle,
             runTime>>

---------------------------------------------------------------------------
\* Program constants

MAX_SENSOR_COUNT == 10
TEMP_PRECISION == 12
EEPROM_MAGIC == 43981
EEPROM_MAGIC_ADDR == 0
EEPROM_SENSOR_ADDR == 4
EEPROM_SENSOR_COUNT_ADDR == 84
EEPROM_TRANSMITTER_ID_ADDR == 120
EEPROM_POWER_MODE_ADDR == 122
BUTTON_SAVE_PRESS_MS == 5000
AMBIENT_TIMEOUT_MS == 30000
POSITION_TIMEOUT_MS == 60000
ADDRESS_BYTES == 8
DEFAULT_TRANSMITTER_ID == 1

\* 1/80 degC per unit: 16 steps per degree at 12 bit, times 5
UnitsPerDegree == 5 * 2 ^ (TEMP_PRECISION - 8)

\* #define TEMP_CHANGE_THRESHOLD 1.5
TEMP_CHANGE_THRESHOLD == (3 * UnitsPerDegree) \div 2

---------------------------------------------------------------------------
\* Bounds of the model

\* most probes on the bus
NumDevices == 2

\* most setup invocations in one behaviour
MaxSetups == 1

---------------------------------------------------------------------------
\* Bytes and the EEPROM

Byte == 0 .. 255

Slots == 0 .. (MAX_SENSOR_COUNT - 1)

EepromCells == 0 .. EEPROM_POWER_MODE_ADDR

\* EEPROM.put(at, value) for a value of Len(bytes) bytes
EepromPut(mem, at, bytes) ==
  [a \in DOMAIN mem |->
     IF a >= at /\ a < at + Len(bytes) THEN bytes[a - at + 1] ELSE mem[a]]

\* EEPROM.get(at, value) for a value of n bytes
EepromGet(mem, at, n) == [k \in 1 .. n |-> mem[at + k - 1]]

\* a uint16_t in memory (little endian)
U16Bytes(v) == <<v % 256, v \div 256>>

U16Value(b) == b[1] + 256 * b[2]

\* struct SensorConfig in memory: sensors[10][8], row after row
ConfigBytes(cfg) ==
  [k \in 1 .. (MAX_SENSOR_COUNT * ADDRESS_BYTES) |->
     cfg[(k - 1) \div ADDRESS_BYTES][((k - 1) % ADDRESS_BYTES) + 1]]

ConfigValue(bytes) ==
  [i \in Slots |-> [j \in 1 .. ADDRESS_BYTES |-> bytes[ADDRESS_BYTES * i + j]]]

\* memcmp(a, b, 8) != 0
SameAddressNegated(a, b) == \E j \in 1 .. ADDRESS_BYTES : a[j] # b[j]

\* memcmp(a, b, 8) == 0
SameAddress(a, b) == \A j \in 1 .. ADDRESS_BYTES : a[j] = b[j]

\* the zero-initialised global sensorConfig
ZeroConfig == [i \in Slots |-> [j \in 1 .. ADDRESS_BYTES |-> 0]]

---------------------------------------------------------------------------
\* ConfigStore

\* isDuplicateSensor returning false for every address
isDuplicateSensorNever(cfg, count, newAddr, excludeIndex) == FALSE

\* the comparison with every slot below the count, whatever excludeIndex is
isDuplicateSensorAnySlot(cfg, count, newAddr, excludeIndex) ==
  \E i \in Slots : i < count /\ SameAddress(newAddr, cfg[i])

\* bool isDuplicateSensor(uint8_t* newAddr, int excludeIndex)
isDuplicateSensor(cfg, count, newAddr, excludeIndex) ==
  \E i \in Slots : i < excludeIndex /\ i < count /\ SameAddress(newAddr, cfg[i])

\* bool validateUniqueConfig()
validateUniqueConfig(cfg, count) ==
  \A i \in Slots : \A j \in Slots :
    (i < count /\ j > i /\ j < count) => ~SameAddress(cfg[i], cfg[j])

\* the count put at EEPROM_SENSOR_COUNT_ADDR - 1, before the table
saveSensorConfigMisplacedCount(mem, cfg, count) ==
  EepromPut(
    EepromPut(
      EepromPut(mem, EEPROM_MAGIC_ADDR, U16Bytes(EEPROM_MAGIC)),
      EEPROM_SENSOR_COUNT_ADDR - 1, <<count>>),
    EEPROM_SENSOR_ADDR, ConfigBytes(cfg))

\* void saveSensorConfig(): the EEPROM after the three puts and the commit
saveSensorConfig(mem, cfg, count) ==
  EepromPut(
    EepromPut(
      EepromPut(mem, EEPROM_MAGIC_ADDR, U16Bytes(EEPROM_MAGIC)),
      EEPROM_SENSOR_ADDR, ConfigBytes(cfg)),
    EEPROM_SENSOR_COUNT_ADDR, <<count>>)

\* loadSensorConfig without the call of validateUniqueConfig
loadSensorConfigUnvalidated(mem, cfg, count) ==
  LET magic == U16Value(EepromGet(mem, EEPROM_MAGIC_ADDR, 2))
      loaded == ConfigValue(EepromGet(mem, EEPROM_SENSOR_ADDR,
                                      MAX_SENSOR_COUNT * ADDRESS_BYTES))
      stored == mem[EEPROM_SENSOR_COUNT_ADDR]
  IN  IF magic = EEPROM_MAGIC
      THEN IF stored < 1 \/ stored > MAX_SENSOR_COUNT
           THEN [sensorConfig |-> loaded, activeSensorCount |-> 1,
                 sensorsConfigured |-> FALSE, report |-> "InvalidCount"]
           ELSE [sensorConfig |-> loaded, activeSensorCount |-> stored,
                 sensorsConfigured |-> TRUE, report |-> "Loaded"]
      ELSE [sensorConfig |-> cfg, activeSensorCount |-> count,
            sensorsConfigured |-> FALSE, report |-> "NoRecord"]

\* loadSensorConfig marking the device configured without a record
loadSensorConfigTrusting(mem, cfg, count) ==
  LET magic == U16Value(EepromGet(mem, EEPROM_MAGIC_ADDR, 2))
  IN  IF magic = EEPROM_MAGIC
      THEN loadSensorConfigUnvalidated(mem, cfg, count)
      ELSE [sensorConfig |-> cfg, activeSensorCount |-> count,
            sensorsConfigured |-> TRUE, report |-> "NoRecord"]

\* void loadSensorConfig(): the globals it leaves, from the globals before it
loadSensorConfig(mem, cfg, count) ==
  LET magic == U16Value(EepromGet(mem, EEPROM_MAGIC_ADDR, 2))
      loaded == ConfigValue(EepromGet(mem, EEPROM_SENSOR_ADDR,
                                      MAX_SENSOR_COUNT * ADDRESS_BYTES))
      stored == mem[EEPROM_SENSOR_COUNT_ADDR]
  IN  IF magic = EEPROM_MAGIC
      THEN IF stored < 1 \/ stored > MAX_SENSOR_COUNT
           THEN [sensorConfig |-> loaded, activeSensorCount |-> 1,
                 sensorsConfigured |-> FALSE, report |-> "InvalidCount"]
           ELSE IF ~validateUniqueConfig(loaded, stored)
                THEN [sensorConfig |-> loaded, activeSensorCount |-> stored,
                      sensorsConfigured |-> FALSE, report |-> "Duplicates"]
                ELSE [sensorConfig |-> loaded, activeSensorCount |-> stored,
                      sensorsConfigured |-> TRUE, report |-> "Loaded"]
      ELSE [sensorConfig |-> cfg, activeSensorCount |-> count,
            sensorsConfigured |-> FALSE, report |-> "NoRecord"]

---------------------------------------------------------------------------
\* The bus and the touch detection

BUTTON_POLL_MS == 10

\* modelled duration of one sampling pass (conversion plus delay(500))
PassMs == 20000

Abs(x) == IF x > 0 THEN x ELSE -x

\* sensors.getAddress(allSensors[i], i): distinct ROM codes, family 0x28
BusAddress(i) == <<40, i + 1, 0, 0, 0, 0, 0, 200 - i>>

Devices(count) == 0 .. (count - 1)

NoTemps == [i \in {} |-> 0]

\* readings a probe gives during setup: at rest 20.0 degC, handled 22.0 degC
SetupTemps == {20 * UnitsPerDegree, 22 * UnitsPerDegree}

\* the same with 21.5 degC, a deviation of exactly the threshold
TouchTemps ==
  {20 * UnitsPerDegree, 20 * UnitsPerDegree + TEMP_CHANGE_THRESHOLD,
   22 * UnitsPerDegree}

\* change >= TEMP_CHANGE_THRESHOLD
ExceedsThresholdInclusive(currentTemp, baseline) ==
  Abs(currentTemp - baseline) >= TEMP_CHANGE_THRESHOLD

\* change = abs(currentTemp - baselines[i]); change > TEMP_CHANGE_THRESHOLD
ExceedsThreshold(currentTemp, baseline) ==
  Abs(currentTemp - baseline) > TEMP_CHANGE_THRESHOLD

\* the scan from the highest index down
FirstTouchedHighest(cur, base, count) ==
  LET hit == {i \in Devices(count) : ExceedsThreshold(cur[i], base[i])}
  IN  IF hit = {} THEN -1 ELSE CHOOSE i \in hit : \A j \in hit : j <= i

\* one pass of the for loop of findSensorByTouch: the index it returns, or -1
FirstTouched(cur, base, count) ==
  LET hit == {i \in Devices(count) : ExceedsThreshold(cur[i], base[i])}
  IN  IF hit = {} THEN -1 ELSE CHOOSE i \in hit : \A j \in hit : i <= j

\* one pass of the for loop over the devices inside the position wait,
\* from device i on: the index assigned (or -1), the baselines it leaves and
\* whether waitStart was reset
\* the scan finding no probe touched
PositionScanNone(i, cur, base, reset, cfg, count, p, n) ==
  [found |-> -1, baselines |-> base, reset |-> reset]

RECURSIVE PositionScan(_, _, _, _, _, _, _, _)
PositionScan(i, cur, base, reset, cfg, count, p, n) ==
  IF i >= n
  THEN [found |-> -1, baselines |-> base, reset |-> reset]
  ELSE IF ExceedsThreshold(cur[i], base[i])
       THEN IF isDuplicateSensor(cfg, count, BusAddress(i), p)
            THEN PositionScan(i + 1, cur, [base EXCEPT ![i] = cur[i]], TRUE,
                              cfg, count, p, n)
            ELSE [found |-> i, baselines |-> [base EXCEPT ![i] = cur[i]],
                  reset |-> reset]
       ELSE PositionScan(i + 1, cur, base, reset, cfg, count, p, n)

\* the instants at which the save-press loop reads the button
PollTimes ==
  {BUTTON_POLL_MS * k : k \in 0 .. ((BUTTON_SAVE_PRESS_MS + 500) \div BUTTON_POLL_MS)}

\* the button is LOW for the first h ms after the wait loop reads it:
\* whether the save-press loop sets buttonPressed
SaveHoldDetected(h) ==
  \E t \in PollTimes :
    t < h /\ t < BUTTON_SAVE_PRESS_MS + 500 /\ t > BUTTON_SAVE_PRESS_MS

\* ms spent in the save-press loop by a press that is released in time
HoldMs(h) == ((h + BUTTON_POLL_MS - 1) \div BUTTON_POLL_MS) * BUTTON_POLL_MS

\* a clock that is restarted by every pass
LaterRestarted(t, ms, timeout) == 0

\* millis() - start after ms more, kept no larger than the timeout it is
\* compared with (all larger values behave alike)
Later(t, ms, timeout) == IF t + ms >= timeout THEN timeout ELSE t + ms

\* how long the user keeps the button down: not at all, exactly 5 s,
\* 5.005 s, 5.02 s
HoldSet ==
  {0, BUTTON_SAVE_PRESS_MS, BUTTON_SAVE_PRESS_MS + BUTTON_POLL_MS \div 2,
   BUTTON_SAVE_PRESS_MS + 2 * BUTTON_POLL_MS}

\* the holds tried in the main specification
SetupHolds == {0, BUTTON_SAVE_PRESS_MS, BUTTON_SAVE_PRESS_MS + 2 * BUTTON_POLL_MS}

\* the presses of HoldSet that the save-press loop takes for a save
SavingHolds == {h \in HoldSet : SaveHoldDetected(h)}

---------------------------------------------------------------------------
\* TelemetryEncoder

PACKET_BUFFER_SIZE == 256

DigitChar(d) == <<"0", "1", "2", "3", "4", "5", "6", "7", "8", "9">>[d + 1]

\* "%d" of a value >= 0
RECURSIVE DecimalChars(_)
DecimalChars(n) ==
  IF n < 10 THEN <<DigitChar(n)>>
  ELSE DecimalChars(n \div 10) \o <<DigitChar(n % 10)>>

UnitsPerTenth == UnitsPerDegree \div 10

\* "%.1f": the sign, then the magnitude rounded to tenths, ties to even
FormatOneDecimal(v) ==
  LET m == Abs(v)
      q == m \div UnitsPerTenth
      r == m % UnitsPerTenth
      up == 2 * r > UnitsPerTenth \/ (2 * r = UnitsPerTenth /\ q % 2 = 1)
      tenths == IF up THEN q + 1 ELSE q
  IN  (IF v < 0 THEN <<"-">> ELSE <<>>)
      \o DecimalChars(tenths \div 10) \o <<".">> \o <<DigitChar(tenths % 10)>>

\* the position loop reading temps[i - 1]
RECURSIVE PositionFieldsShifted(_, _, _)
PositionFieldsShifted(i, count, t) ==
  IF i >= count THEN <<>>
  ELSE FormatOneDecimal(t[i - 1]) \o <<",">> \o PositionFieldsShifted(i + 1, count, t)

\* for (int i = 1; i < activeSensorCount; i++) snprintf(..., "%.1f,", temps[i])
RECURSIVE PositionFields(_, _, _)
PositionFields(i, count, t) ==
  IF i >= count THEN <<>>
  ELSE FormatOneDecimal(t[i]) \o <<",">> \o PositionFields(i + 1, count, t)

\* the fill loop starting at activeSensorCount + 1
RECURSIVE ZeroFieldsFromNext(_)
ZeroFieldsFromNext(i) ==
  IF i + 1 >= MAX_SENSOR_COUNT THEN <<>>
  ELSE <<"0", ".", "0", ",">> \o ZeroFieldsFromNext(i + 1)

\* for (int i = activeSensorCount; i < MAX_SENSOR_COUNT; i++) snprintf(..., "0.0,")
RECURSIVE ZeroFields(_)
ZeroFields(i) ==
  IF i >= MAX_SENSOR_COUNT THEN <<>>
  ELSE <<"0", ".", "0", ",">> \o ZeroFields(i + 1)

\* snprintf into char packet[256]: at most 255 characters are kept
Truncated(chars) ==
  IF Len(chars) < PACKET_BUFFER_SIZE THEN chars
  ELSE SubSeq(chars, 1, PACKET_BUFFER_SIZE - 1)

\* the ambient value written with "%.1f,"
BuildPacketCommaLast(id, count, t) ==
  Truncated(<<"T", "X">> \o DecimalChars(id) \o <<":">>
            \o PositionFields(1, count, t) \o ZeroFields(count)
            \o FormatOneDecimal(t[0]) \o <<",">>)

\* the packet readAndTransmitData formats from transmitterID,
\* activeSensorCount and latestData.temps
BuildPacket(id, count, t) ==
  Truncated(<<"T", "X">> \o DecimalChars(id) \o <<":">>
            \o PositionFields(1, count, t) \o ZeroFields(count)
            \o FormatOneDecimal(t[0]))

---------------------------------------------------------------------------
\* Boot images and power-on values

ErasedEeprom == [a \in EepromCells |-> 255]

\* a persisted record with the given magic word, slot table and count byte
Record(magic, cfg, count) ==
  EepromPut(
    EepromPut(
      EepromPut(ErasedEeprom, EEPROM_MAGIC_ADDR, U16Bytes(magic)),
      EEPROM_SENSOR_ADDR, ConfigBytes(cfg)),
    EEPROM_SENSOR_COUNT_ADDR, <<count>>)

\* slot tables found in storage: every slot a different probe; slots 0 and 1
\* the same probe
DistinctTable ==
  [i \in Slots |-> IF i < 2 THEN BusAddress(i) ELSE ZeroConfig[i]]

DuplicateTable ==
  [i \in Slots |-> IF i < 2 THEN BusAddress(0) ELSE ZeroConfig[i]]

\* void saveTransmitterConfig(): the EEPROM after the two puts and the commit
saveTransmitterConfig(mem, id, mode) ==
  EepromPut(EepromPut(mem, EEPROM_TRANSMITTER_ID_ADDR, U16Bytes(id)),
            EEPROM_POWER_MODE_ADDR, <<IF mode THEN 1 ELSE 0>>)

\* the slot records the EEPROM may hold at the first boot of the main
\* specification
BootRecords ==
  {ErasedEeprom,
   Record(EEPROM_MAGIC, DistinctTable, 2),
   Record(EEPROM_MAGIC, DistinctTable, 0),
   Record(EEPROM_MAGIC, DuplicateTable, 2)}

\* what the EEPROM may hold at the first boot of the main specification: one
\* of the records, on a device whose identifier and power mode were saved
\* once over the configuration surface (the other stored metadata is varied
\* in SpecMeta and SpecRun)
BootImages ==
  {saveTransmitterConfig(rec, DEFAULT_TRANSMITTER_ID, FALSE) :
     rec \in BootRecords}

\* bool savedPowerMode of loadTransmitterConfig: the flags it can leave.
\* EEPROM.get copies the stored byte into a bool; for a byte other than 0 and
\* 1 the tests savedPowerMode == 0 || savedPowerMode == 1 and the later
\* if (powerSaveMode) read an invalid bool, which a build may take either way
loadPowerSaveMode(mem) ==
  IF mem[EEPROM_POWER_MODE_ADDR] \in {0, 1}
    THEN {mem[EEPROM_POWER_MODE_ADDR] = 1}
    ELSE BOOLEAN

\* uint16_t savedID of loadTransmitterConfig
loadTransmitterID(mem) ==
  LET savedID == U16Value(EepromGet(mem, EEPROM_TRANSMITTER_ID_ADDR, 2))
  IN  IF savedID # 65535 THEN savedID ELSE DEFAULT_TRANSMITTER_ID

MAX_DEVICE_NAME_LENGTH == 32
EEPROM_NAME_ADDR == 88

\* a C string in a char[32]: its characters, then zero bytes to the end
NameArray(chars) ==
  [k \in 1 .. MAX_DEVICE_NAME_LENGTH |-> IF k <= Len(chars) THEN chars[k] ELSE 0]

\* char deviceName[32] = "AxleWatch-TX"
DefaultName ==
  NameArray(<<65, 120, 108, 101, 87, 97, 116, 99, 104, 45, 84, 88>>)

\* the place of the first zero byte of a character array, or one past its end
StrEnd(a) ==
  IF \E k \in 1 .. Len(a) : a[k] = 0
    THEN CHOOSE k \in 1 .. Len(a) :
           a[k] = 0 /\ \A j \in 1 .. (k - 1) : a[j] # 0
    ELSE Len(a) + 1

\* strncpy(deviceName, src, MAX_DEVICE_NAME_LENGTH - 1) followed by
\* deviceName[MAX_DEVICE_NAME_LENGTH - 1] = 0
CopyName(src) ==
  [k \in 1 .. MAX_DEVICE_NAME_LENGTH |->
     IF k < MAX_DEVICE_NAME_LENGTH /\ k < StrEnd(src) THEN src[k] ELSE 0]

\* tempName[i] < 32 || tempName[i] > 126, negated
Printable(c) == c >= 32 /\ c <= 126

\* void loadDeviceName(): deviceName after the call
loadDeviceName(mem, name) ==
  LET tempName == EepromGet(mem, EEPROM_NAME_ADDR, MAX_DEVICE_NAME_LENGTH)
      valid ==
        /\ tempName[1] # 0
        /\ tempName[1] # 255
        /\ \A k \in 1 .. MAX_DEVICE_NAME_LENGTH :
             k < StrEnd(tempName) => Printable(tempName[k])
  IN  IF valid THEN CopyName(tempName) ELSE name

\* the name written over the first bytes of the slot record
saveDeviceNameOverRecord(mem, name) == EepromPut(mem, EEPROM_MAGIC_ADDR, name)

\* void saveDeviceName(): the EEPROM after the put and the commit
saveDeviceName(mem, name) == EepromPut(mem, EEPROM_NAME_ADDR, name)

\* the clock is counted in ticks of 16 ms, a power of two, so that the
\* 32-bit millisecond counter wraps at a whole number of ticks
MsPerTick == 16
TRANSMIT_INTERVAL_MS == 30000
DEEP_SLEEP_DURATION_US == 30000000
TransmitIntervalTicks == TRANSMIT_INTERVAL_MS \div MsPerTick
DeepSleepTicks == DEEP_SLEEP_DURATION_US \div (1000 * MsPerTick)

\* 2^32 ms in ticks: unsigned long millis() wraps here
ClockModulus == 2 ^ 28

\* the comparison of absolute times instead of the unsigned difference
ElapsedAbsolute(t, last) == IF t >= last THEN t - last ELSE 0

\* millis() - lastTransmitTime in unsigned long arithmetic
Elapsed(t, last) == (t - last + ClockModulus) % ClockModulus

\* an interval test that always passes
IntervalElapsedAlways(t, last) == TRUE

\* millis() - lastTransmitTime >= TRANSMIT_INTERVAL_MS
IntervalElapsed(t, last) == Elapsed(t, last) >= TransmitIntervalTicks

ZeroTemps == [i \in Slots |-> 0]

\* the scheduler, the statistics and the name as their initialisers leave
\* them (lines 85, 92, 116), the clock at 0
RunPowerOn ==
  /\ deviceName = DefaultName
  /\ now = 0
  /\ lastTransmitTime = 0
  /\ totalPackets = 0
  /\ sinceCycle = 0
  /\ runTime = 0

\* dupCall where isDuplicateSensor is not called on its own
NoCall == [newAddr |-> ZeroConfig[0], excludeIndex |-> 0, done |-> FALSE,
           returned |-> FALSE]

\* postedID before any POST /api/config
NoPost == -1

\* lastSaved before any save
NoSave == [sensorConfig |-> ZeroConfig, activeSensorCount |-> 0]

\* the locals of scanAndIdentifySensors while no invocation runs
NoInvocation ==
  /\ baselines = NoTemps
  /\ sample = NoTemps
  /\ identifiedSensor = -1
  /\ pos = 0
  /\ elapsed = 0
  /\ buttonPressed = FALSE
  /\ hold = 0

\* the globals as their initialisers leave them (lines 83-116)
PowerOn ==
  /\ sensorConfig = ZeroConfig
  /\ activeSensorCount = 1
  /\ sensorsConfigured = FALSE
  /\ transmitterID = DEFAULT_TRANSMITTER_ID
  /\ temps = ZeroTemps
  /\ loadReport = "None"
  /\ packet = <<>>
  /\ powerSaveMode = FALSE

Init ==
  /\ postedID = NoPost
  /\ RunPowerOn
  /\ dupCall = NoCall
  /\ eeprom \in BootImages
  /\ eepromAtEntry = eeprom
  /\ invocations = 0
  /\ lastSaved = NoSave
  /\ deviceCount \in 0 .. NumDevices
  /\ pc = "boot"
  /\ PowerOn
  /\ NoInvocation

---------------------------------------------------------------------------
\* setup() and loop()

\* setup(): the loads, then enterSetupMode() when the button is held
Boot ==
  /\ pc = "boot"
  /\ LET r == loadSensorConfig(eeprom, sensorConfig, activeSensorCount)
     IN  /\ sensorConfig' = r.sensorConfig
         /\ activeSensorCount' = r.activeSensorCount
         /\ sensorsConfigured' = r.sensorsConfigured
         /\ loadReport' = r.report
  /\ transmitterID' = loadTransmitterID(eeprom)
  /\ powerSaveMode' \in loadPowerSaveMode(eeprom)
  /\ UNCHANGED <<hold, postedID>>
  /\ deviceName' = loadDeviceName(eeprom, deviceName)
  /\ UNCHANGED clockVars
  /\ UNCHANGED dupCall
  /\ \E held \in BOOLEAN :
       /\ held => invocations < MaxSetups
       /\ pc' = IF held THEN "setup" ELSE "loop"
       /\ invocations' = IF held THEN invocations + 1 ELSE invocations
  /\ UNCHANGED <<eeprom, deviceCount, baselines, sample, identifiedSensor, pos,
                 elapsed, buttonPressed, eepromAtEntry, lastSaved, temps, packet>>

\* loop(): checkButtonPress(BUTTON_SETUP_PRESS_MS) returned true
EnterSetupMode ==
  /\ pc = "loop"
  /\ invocations < MaxSetups
  /\ invocations' = invocations + 1
  /\ pc' = "setup"
  /\ UNCHANGED <<eeprom, sensorConfig, activeSensorCount, sensorsConfigured,
                 loadReport, deviceCount, baselines, sample, identifiedSensor,
                 pos, elapsed, buttonPressed, eepromAtEntry, lastSaved, temps,
                 transmitterID, packet>>
  /\ UNCHANGED <<powerSaveMode, hold, postedID>>
  /\ UNCHANGED runVars
  /\ UNCHANGED dupCall

\* scanAndIdentifySensors() up to the call of findSensorByTouch
Scan ==
  /\ pc = "setup"
  /\ eepromAtEntry' = eeprom
  /\ UNCHANGED <<invocations, lastSaved>>
  /\ identifiedSensor' = -1
  /\ IF deviceCount < 1
     THEN /\ pc' = "aborted"
          /\ UNCHANGED <<activeSensorCount, baselines, sample>>
     ELSE /\ baselines' = [i \in Devices(deviceCount) |-> 20 * UnitsPerDegree]
          /\ sample' = baselines'
          /\ activeSensorCount' = 0
          /\ pc' = "ambient"
  /\ elapsed' = 0
  /\ UNCHANGED <<eeprom, sensorConfig, sensorsConfigured, loadReport,
                 deviceCount, pos, buttonPressed, temps, transmitterID, packet>>
  /\ UNCHANGED <<powerSaveMode, hold, postedID>>
  /\ UNCHANGED runVars
  /\ UNCHANGED dupCall

\* the ambient branch without the memcpy into sensors[0]
AmbientFoundUnwritten(i, cur) ==
  /\ identifiedSensor' = i
  /\ baselines' = [baselines EXCEPT ![i] = cur[i]]
  /\ sensorConfig' = sensorConfig
  /\ activeSensorCount' = 1
  /\ pos' = 1
  /\ elapsed' = 0
  /\ buttonPressed' = FALSE
  /\ pc' = "position"

\* lines 380-390: the touched probe becomes the ambient sensor
AmbientFound(i, cur) ==
  /\ identifiedSensor' = i
  /\ baselines' = [baselines EXCEPT ![i] = cur[i]]
  /\ sensorConfig' = [sensorConfig EXCEPT ![0] = BusAddress(i)]
  /\ activeSensorCount' = 1
  /\ pos' = 1
  /\ elapsed' = 0
  /\ buttonPressed' = FALSE
  /\ pc' = "position"

\* one pass of the while loop of findSensorByTouch, the probes reading one of
\* the samples of C
findSensorByTouchPass(C) ==
  /\ pc = "ambient"
  /\ elapsed < AMBIENT_TIMEOUT_MS
  /\ \E cur \in C :
       /\ sample' = cur
       /\ LET i == FirstTouched(cur, baselines, deviceCount)
          IN  IF i >= 0
              THEN AmbientFound(i, cur)
              ELSE /\ elapsed' = Later(elapsed, PassMs, AMBIENT_TIMEOUT_MS)
                   /\ UNCHANGED <<identifiedSensor, baselines, sensorConfig,
                                  activeSensorCount, pos, buttonPressed, pc>>
  /\ UNCHANGED <<eeprom, sensorsConfigured, loadReport, deviceCount,
                 eepromAtEntry, invocations, lastSaved, temps, transmitterID,
                 packet>>
  /\ UNCHANGED <<powerSaveMode, hold, postedID>>
  /\ UNCHANGED runVars
  /\ UNCHANGED dupCall

AmbientPass == findSensorByTouchPass([Devices(deviceCount) -> SetupTemps])

\* the ambient failure branch without its return
AmbientTimeoutFallsThrough ==
  /\ pc = "ambient"
  /\ elapsed >= AMBIENT_TIMEOUT_MS
  /\ identifiedSensor' = -1
  /\ pos' = 1
  /\ elapsed' = 0
  /\ pc' = "position"
  /\ UNCHANGED <<eeprom, sensorConfig, activeSensorCount, sensorsConfigured,
                 loadReport, deviceCount, baselines, sample,
                 buttonPressed, eepromAtEntry, invocations, lastSaved, temps,
                 transmitterID, packet>>
  /\ UNCHANGED <<powerSaveMode, hold, postedID>>
  /\ UNCHANGED runVars
  /\ UNCHANGED dupCall

\* findSensorByTouch returns -1: lines 391-396
AmbientTimeout ==
  /\ pc = "ambient"
  /\ elapsed >= AMBIENT_TIMEOUT_MS
  /\ identifiedSensor' = -1
  /\ pc' = "aborted"
  /\ UNCHANGED <<eeprom, sensorConfig, activeSensorCount, sensorsConfigured,
                 loadReport, deviceCount, baselines, sample, pos, elapsed,
                 buttonPressed, eepromAtEntry, invocations, lastSaved, temps,
                 transmitterID, packet>>
  /\ UNCHANGED <<powerSaveMode, hold, postedID>>
  /\ UNCHANGED runVars
  /\ UNCHANGED dupCall

\* one pass of the while loop of the position wait (lines 424-505) and, when a
\* probe was assigned, the step of the for loop over the positions; the probes
\* read one of the samples of C, the button is held for one of the times of H
PositionLoopPass(C, H) ==
  /\ pc = "position"
  /\ elapsed < POSITION_TIMEOUT_MS
  /\ UNCHANGED <<powerSaveMode, postedID>>
  /\ UNCHANGED runVars
  /\ UNCHANGED dupCall
  /\ \E h \in H :
       /\ hold' = h
       /\ \E cur \in C :
         IF h \in SavingHolds
         THEN /\ buttonPressed' = TRUE
              /\ pc' = "validating"
              /\ UNCHANGED <<sensorConfig, activeSensorCount, baselines, sample,
                             pos, elapsed>>
         ELSE LET r == PositionScan(0, cur, baselines, FALSE, sensorConfig,
                                    activeSensorCount, pos, deviceCount)
              IN  /\ sample' = cur
                  /\ baselines' = r.baselines
                  /\ buttonPressed' = FALSE
                  /\ IF r.found >= 0
                     THEN /\ sensorConfig' =
                               [sensorConfig EXCEPT ![pos] = BusAddress(r.found)]
                          /\ activeSensorCount' = (activeSensorCount + 1) % 256
                          /\ pos' = pos + 1
                          /\ elapsed' = 0
                          /\ pc' = IF pos + 1 < MAX_SENSOR_COUNT
                                   THEN "position" ELSE "validating"
                     ELSE /\ elapsed' =
                               Later(IF r.reset THEN 0 ELSE elapsed + HoldMs(h),
                                     PassMs, POSITION_TIMEOUT_MS)
                          /\ UNCHANGED <<sensorConfig, activeSensorCount, pos,
                                         pc>>
  /\ UNCHANGED <<eeprom, sensorsConfigured, loadReport, deviceCount,
                 identifiedSensor, eepromAtEntry, invocations, lastSaved,
                 temps, transmitterID, packet>>

PositionPass ==
  PositionLoopPass([Devices(deviceCount) -> SetupTemps], SetupHolds)

\* the timeout branch returning without the validation and the save
PositionTimeoutAborts ==
  /\ pc = "position"
  /\ elapsed >= POSITION_TIMEOUT_MS
  /\ pc' = "aborted"
  /\ UNCHANGED <<eeprom, sensorConfig, activeSensorCount, sensorsConfigured,
                 loadReport, deviceCount, baselines, sample, identifiedSensor,
                 pos, elapsed, buttonPressed, eepromAtEntry, invocations,
                 lastSaved, temps, transmitterID, packet, powerSaveMode, hold,
                 postedID>>
  /\ UNCHANGED runVars
  /\ UNCHANGED dupCall

\* the 60 s window ran out: lines 516-521
PositionTimeout ==
  /\ pc = "position"
  /\ elapsed >= POSITION_TIMEOUT_MS
  /\ pc' = "validating"
  /\ UNCHANGED <<eeprom, sensorConfig, activeSensorCount, sensorsConfigured,
                 loadReport, deviceCount, baselines, sample, identifiedSensor,
                 pos, elapsed, buttonPressed, eepromAtEntry, invocations,
                 lastSaved, temps,
                 transmitterID, packet>>
  /\ UNCHANGED <<powerSaveMode, hold, postedID>>
  /\ UNCHANGED runVars
  /\ UNCHANGED dupCall

\* lines 524-547: the final validation, the save, sensorsConfigured = true
Validate ==
  /\ pc = "validating"
  /\ IF validateUniqueConfig(sensorConfig, activeSensorCount)
     THEN /\ eeprom' = saveSensorConfig(eeprom, sensorConfig, activeSensorCount)
          /\ lastSaved' = [sensorConfig |-> sensorConfig,
                           activeSensorCount |-> activeSensorCount]
          /\ sensorsConfigured' = TRUE
          /\ pc' = "saved"
     ELSE /\ pc' = "aborted"
          /\ UNCHANGED <<eeprom, sensorsConfigured, lastSaved>>
  /\ UNCHANGED <<sensorConfig, activeSensorCount, loadReport, deviceCount,
                 baselines, sample, identifiedSensor, pos, elapsed,
                 buttonPressed, eepromAtEntry, invocations, temps,
                 transmitterID, packet>>
  /\ UNCHANGED <<powerSaveMode, hold, postedID>>
  /\ UNCHANGED runVars
  /\ UNCHANGED dupCall

\* scanAndIdentifySensors() and enterSetupMode() return to setup() or loop()
Return ==
  /\ pc \in {"saved", "aborted"}
  /\ pc' = "loop"
  /\ baselines' = NoTemps
  /\ sample' = NoTemps
  /\ identifiedSensor' = -1
  /\ pos' = 0
  /\ elapsed' = 0
  /\ buttonPressed' = FALSE
  /\ eepromAtEntry' = eeprom
  /\ UNCHANGED <<eeprom, sensorConfig, activeSensorCount, sensorsConfigured,
                 loadReport, deviceCount, invocations, lastSaved, temps,
                 transmitterID,
                 packet>>
  /\ hold' = 0
  /\ UNCHANGED <<powerSaveMode, postedID>>
  /\ UNCHANGED runVars
  /\ UNCHANGED dupCall

\* void readAndTransmitData() with rd the temperatures the probes report
\* (latestData.timestamp and loraStats.lastPacketTime are not followed)
readAndTransmitData(rd) ==
  /\ temps' = [i \in Slots |-> IF i < activeSensorCount THEN rd[i] ELSE temps[i]]
  /\ packet' = BuildPacket(transmitterID, activeSensorCount, temps')
  /\ totalPackets' = totalPackets + 1
  /\ UNCHANGED <<eeprom, sensorConfig, activeSensorCount, sensorsConfigured,
                 loadReport, deviceCount, baselines, sample,
                 identifiedSensor, pos, elapsed, buttonPressed, eepromAtEntry,
                 invocations, lastSaved,
                 transmitterID>>
  /\ UNCHANGED <<powerSaveMode, hold, postedID, deviceName, dupCall>>

\* loop(), lines 242-250, with no deep sleep after the cycle
TransmitCycleAwake(t, R) ==
  /\ \E rd \in R : readAndTransmitData(rd)
  /\ lastTransmitTime' = t
  /\ pc' = "loop"

\* loop(), lines 242-250: the cycle when the interval test passed at time t,
\* the probes reporting one of the readings R; enterDeepSleep() does not
\* return
TransmitCycle(t, R) ==
  /\ \E rd \in R : readAndTransmitData(rd)
  /\ lastTransmitTime' = t
  /\ pc' = IF powerSaveMode THEN "sleep" ELSE "loop"

\* packets followed in one run of the model
MaxPackets == 1

\* real time followed in one run of the model: four transmit intervals
MaxRunTicks == 7500

\* loop(), lines 240-251, at a pass that reads millis() d ticks after the
\* pass before (d covers whatever ran in between)
LoopPass(D, R) ==
  /\ pc = "loop"
  /\ \E d \in D :
       /\ runTime + d <= MaxRunTicks
       /\ runTime' = runTime + d
       /\ now' = (now + d) % ClockModulus
       /\ IF sensorsConfigured /\ IntervalElapsed(now', lastTransmitTime)
            THEN /\ TransmitCycle(now', R)
                 /\ sinceCycle' = 0
            ELSE /\ sinceCycle' = sinceCycle + d
                 /\ UNCHANGED <<eeprom, sensorConfig, activeSensorCount,
                                sensorsConfigured, loadReport, pc, deviceCount,
                                baselines, sample, identifiedSensor, pos,
                                elapsed, buttonPressed, eepromAtEntry,
                                invocations, lastSaved, temps, transmitterID,
                                packet, powerSaveMode, hold, postedID,
                                deviceName, lastTransmitTime, totalPackets,
                                dupCall>>

\* the wake timer of esp_deep_sleep_start fires: the chip restarts, every
\* global is initialised again, the EEPROM stays
Wake ==
  /\ pc = "sleep"
  /\ runTime + DeepSleepTicks <= MaxRunTicks
  /\ runTime' = runTime + DeepSleepTicks
  /\ pc' = "boot"
  /\ sensorConfig' = ZeroConfig
  /\ activeSensorCount' = 1
  /\ sensorsConfigured' = FALSE
  /\ transmitterID' = DEFAULT_TRANSMITTER_ID
  /\ powerSaveMode' = FALSE
  /\ deviceName' = DefaultName
  /\ temps' = ZeroTemps
  /\ loadReport' = "None"
  /\ packet' = <<>>
  /\ now' = 0
  /\ lastTransmitTime' = 0
  /\ totalPackets' = 0
  /\ sinceCycle' = 0
  /\ eepromAtEntry' = eeprom
  /\ UNCHANGED <<eeprom, deviceCount, baselines, sample, identifiedSensor, pos,
                 elapsed, buttonPressed, invocations, lastSaved, hold,
                 postedID, dupCall>>

\* power is cycled while loop() runs: every global is initialised again, the
\* EEPROM stays (power lost inside a setup invocation leaves the same boot
\* state as the invocation aborting and the power going then)
Reboot ==
  /\ pc = "loop"
  /\ pc' = "boot"
  /\ deviceCount' \in 0 .. NumDevices
  /\ sensorConfig' = ZeroConfig
  /\ activeSensorCount' = 1
  /\ sensorsConfigured' = FALSE
  /\ transmitterID' = DEFAULT_TRANSMITTER_ID
  /\ temps' = ZeroTemps
  /\ loadReport' = "None"
  /\ packet' = <<>>
  /\ baselines' = NoTemps
  /\ sample' = NoTemps
  /\ identifiedSensor' = -1
  /\ pos' = 0
  /\ elapsed' = 0
  /\ buttonPressed' = FALSE
  /\ eepromAtEntry' = eeprom
  /\ UNCHANGED <<eeprom, invocations, lastSaved>>
  /\ hold' = 0
  /\ powerSaveMode' = FALSE
  /\ UNCHANGED postedID
  /\ deviceName' = DefaultName
  /\ now' = 0
  /\ lastTransmitTime' = 0
  /\ totalPackets' = 0
  /\ sinceCycle' = 0
  /\ UNCHANGED <<runTime, dupCall>>

Next ==
  \/ Boot
  \/ EnterSetupMode
  \/ Scan
  \/ AmbientPass
  \/ AmbientTimeout
  \/ PositionPass
  \/ PositionTimeout
  \/ Validate
  \/ Return
  \/ Reboot

Spec == Init /\ [][Next]_vars

---------------------------------------------------------------------------
\* findSensorByTouch on its own: any baselines, readings with a deviation of
\* exactly the threshold among them

\* probes on the bus in SpecTouch
TouchDevices == 3

InitTouch ==
  /\ postedID = NoPost
  /\ RunPowerOn
  /\ dupCall = NoCall
  /\ eeprom = ErasedEeprom
  /\ eepromAtEntry = eeprom
  /\ invocations = 1
  /\ lastSaved = NoSave
  /\ deviceCount = TouchDevices
  /\ baselines \in [Devices(TouchDevices) -> TouchTemps]
  /\ sample = baselines
  /\ identifiedSensor = -1
  /\ pos = 0
  /\ elapsed = 0
  /\ buttonPressed = FALSE
  /\ pc = "ambient"
  /\ sensorConfig = ZeroConfig
  /\ activeSensorCount = 0
  /\ sensorsConfigured = FALSE
  /\ transmitterID = DEFAULT_TRANSMITTER_ID
  /\ temps = ZeroTemps
  /\ loadReport = "NoRecord"
  /\ packet = <<>>
  /\ powerSaveMode = FALSE
  /\ hold = 0

TouchPass == findSensorByTouchPass([Devices(deviceCount) -> TouchTemps])

NextTouch ==
  \/ TouchPass
  \/ AmbientTimeout

SpecTouch == InitTouch /\ [][NextTouch]_vars

---------------------------------------------------------------------------
\* A setup invocation on a bus with more probes than slots, one probe touched
\* at a time: the probe assigned last (a duplicate touch) or the next one

\* probes on the bus in SpecFull
FullDevices == 11

Flipped(v) == IF v = 20 * UnitsPerDegree THEN 22 * UnitsPerDegree
              ELSE 20 * UnitsPerDegree

\* the samples of one pass: nothing touched, or one probe of those at the
\* enumeration indices pos-1 and pos
OneTouchSamples ==
  {baselines} \cup
  {[baselines EXCEPT ![j] = Flipped(baselines[j])] :
     j \in {pos - 1, pos} \cap Devices(deviceCount)}

InitFull ==
  /\ postedID = NoPost
  /\ RunPowerOn
  /\ dupCall = NoCall
  /\ eeprom = ErasedEeprom
  /\ eepromAtEntry = eeprom
  /\ invocations = 1
  /\ lastSaved = NoSave
  /\ deviceCount = FullDevices
  /\ NoInvocation
  /\ pc = "setup"
  /\ sensorConfig = ZeroConfig
  /\ activeSensorCount = 1
  /\ sensorsConfigured = FALSE
  /\ transmitterID = DEFAULT_TRANSMITTER_ID
  /\ temps = ZeroTemps
  /\ loadReport = "NoRecord"
  /\ packet = <<>>
  /\ powerSaveMode = FALSE

FullAmbientPass == findSensorByTouchPass(OneTouchSamples)

FullPositionPass == PositionLoopPass(OneTouchSamples, HoldSet)

NextFull ==
  \/ Scan
  \/ FullAmbientPass
  \/ AmbientTimeout
  \/ FullPositionPass
  \/ PositionTimeout
  \/ Validate
  \/ Return

SpecFull == InitFull /\ [][NextFull]_vars

---------------------------------------------------------------------------
\* One setup invocation, run to its end: setup() and loop() execute on one
\* core without preemption, so while the invocation can take a step it takes
\* one

InitLive ==
  /\ postedID = NoPost
  /\ RunPowerOn
  /\ dupCall = NoCall
  /\ eeprom = ErasedEeprom
  /\ eepromAtEntry = eeprom
  /\ invocations = 1
  /\ lastSaved = NoSave
  /\ deviceCount \in 0 .. NumDevices
  /\ NoInvocation
  /\ pc = "setup"
  /\ sensorConfig = ZeroConfig
  /\ activeSensorCount = 1
  /\ sensorsConfigured = FALSE
  /\ transmitterID = DEFAULT_TRANSMITTER_ID
  /\ temps = ZeroTemps
  /\ loadReport = "NoRecord"
  /\ packet = <<>>
  /\ powerSaveMode = FALSE

NextLive ==
  \/ Scan
  \/ AmbientPass
  \/ AmbientTimeout
  \/ PositionPass
  \/ PositionTimeout
  \/ Validate
  \/ Return

SpecLive == InitLive /\ [][NextLive]_vars /\ WF_vars(NextLive)

---------------------------------------------------------------------------
\* The transmitter identity: set over the configuration surface, persisted,
\* loaded at the next boot and sent in the packets

\* identifiers a POST /api/config carries
PostIds == {0, DEFAULT_TRANSMITTER_ID, 7, 256, 65534, 65535}

\* a body without the "name" key
NoName == <<-1>>

\* void handleApiConfigPost() for a body that parses: the name key, when
\* present, sets and saves the name; the transmitterID and powerSaveMode
\* keys, when present, set the globals; both globals are then saved
ApiConfigPost(Names, Ids) ==
  /\ pc = "loop"
  /\ \E newName \in Names \cup {NoName}, hasID \in BOOLEAN, newID \in Ids,
        hasPower \in BOOLEAN, newPowerMode \in BOOLEAN :
       /\ deviceName' = IF newName # NoName
                          THEN CopyName(newName \o <<0>>)
                          ELSE deviceName
       /\ transmitterID' = IF hasID THEN newID ELSE transmitterID
       /\ postedID' = IF hasID THEN newID ELSE postedID
       /\ powerSaveMode' = IF hasPower THEN newPowerMode ELSE powerSaveMode
       /\ eeprom' = saveTransmitterConfig(
                      IF newName # NoName
                        THEN saveDeviceName(eeprom, deviceName')
                        ELSE eeprom,
                      transmitterID', powerSaveMode')
  /\ UNCHANGED <<sensorConfig, activeSensorCount, sensorsConfigured, loadReport,
                 pc, deviceCount, baselines, sample, identifiedSensor, pos,
                 elapsed, buttonPressed, eepromAtEntry, invocations, lastSaved,
                 temps, packet, hold>>
  /\ UNCHANGED clockVars
  /\ UNCHANGED dupCall

\* POST /api/config with the identity keys only
handleApiConfigPost == ApiConfigPost({}, PostIds)

\* a configured device before its first boot on this firmware
InitIdentity ==
  /\ postedID = NoPost
  /\ RunPowerOn
  /\ dupCall = NoCall
  /\ eeprom = saveSensorConfig(ErasedEeprom, DistinctTable, 2)
  /\ eepromAtEntry = eeprom
  /\ invocations = MaxSetups
  /\ lastSaved = [sensorConfig |-> DistinctTable, activeSensorCount |-> 2]
  /\ deviceCount = NumDevices
  /\ pc = "boot"
  /\ PowerOn
  /\ NoInvocation

\* loop(): the transmit branch, every probe reading 20.0 degC
IdentityTransmit ==
  /\ pc = "loop"
  /\ sensorsConfigured
  /\ totalPackets < MaxPackets
  /\ TransmitCycle(now, {[i \in Devices(activeSensorCount) |->
                            20 * UnitsPerDegree]})
  /\ UNCHANGED <<now, sinceCycle, runTime>>

NextIdentity ==
  \/ Boot
  \/ handleApiConfigPost
  \/ IdentityTransmit
  \/ Wake
  \/ Reboot

SpecIdentity == InitIdentity /\ [][NextIdentity]_vars

---------------------------------------------------------------------------
\* The transmit cycle on its own: every activeSensorCount, several
\* transmitter identifiers, readings over the sensor's range

\* readings in 1/80 degC: 25.1, 12.3, 18.0, -127.0 (DEVICE_DISCONNECTED_C),
\* 0.25, -0.0625, 0.0, 100.75
ReadingValues == <<2008, 984, 1440, -10160, 20, -5, 0, 8060>>

\* the readings of one cycle: slot i reads the value k + i * stride places
\* into ReadingValues, cyclically
EncodeReadings(count) ==
  {[i \in Devices(count) |->
      ReadingValues[((k + i * stride) % Len(ReadingValues)) + 1]] :
     k \in 0 .. (Len(ReadingValues) - 1), stride \in {0, 1}}

EncodeIds == {0, DEFAULT_TRANSMITTER_ID, 7, 65535}

\* a table of count assigned slots, as a setup on a bus of count probes saves
AssignedTable(count) ==
  [i \in Slots |-> IF i < count THEN BusAddress(i) ELSE ZeroConfig[i]]

InitEncode ==
  /\ postedID = NoPost
  /\ RunPowerOn
  /\ dupCall = NoCall
  /\ activeSensorCount \in 1 .. MAX_SENSOR_COUNT
  /\ sensorConfig = AssignedTable(activeSensorCount)
  /\ eeprom = saveSensorConfig(ErasedEeprom, sensorConfig, activeSensorCount)
  /\ eepromAtEntry = eeprom
  /\ invocations = 1
  /\ lastSaved = [sensorConfig |-> sensorConfig,
                  activeSensorCount |-> activeSensorCount]
  /\ deviceCount = activeSensorCount
  /\ sensorsConfigured = TRUE
  /\ transmitterID \in EncodeIds
  /\ temps = ZeroTemps
  /\ loadReport = "Loaded"
  /\ packet = <<>>
  /\ powerSaveMode = FALSE
  /\ pc = "loop"
  /\ NoInvocation

\* loop(): the transmit branch, lines 240-244
EncodeTransmit ==
  /\ pc = "loop"
  /\ sensorsConfigured
  /\ totalPackets < MaxPackets
  /\ TransmitCycle(now, EncodeReadings(activeSensorCount))
  /\ UNCHANGED <<now, sinceCycle, runTime>>

NextEncode == EncodeTransmit

SpecEncode == InitEncode /\ [][NextEncode]_vars

---------------------------------------------------------------------------
\* ConfigStore on its own: any stored record at boot, any valid table at the
\* save

StoreMagics == {EEPROM_MAGIC, 65535, EEPROM_MAGIC + 1, EEPROM_MAGIC - 256, 0}

StoreCounts == {0, 1, 2, 3, MAX_SENSOR_COUNT, MAX_SENSOR_COUNT + 1, 255}

\* ten different probes; the same with slot 2 a copy of slot 0; with slot 9 a
\* copy of slot 1; the erased table
StoreTables ==
  {AssignedTable(MAX_SENSOR_COUNT),
   [AssignedTable(MAX_SENSOR_COUNT) EXCEPT ![2] = BusAddress(0)],
   [AssignedTable(MAX_SENSOR_COUNT) EXCEPT ![9] = BusAddress(1)],
   [i \in Slots |-> [j \in 1 .. ADDRESS_BYTES |-> 255]]}

StoreImages ==
  {Record(m, t, c) : m \in StoreMagics, t \in StoreTables, c \in StoreCounts}

\* the table in memory when the final validation is reached: the first count
\* slots hold probes k, k+1, ..., the later slots what an earlier run left
ValidatingTables(count) ==
  {[i \in Slots |-> IF i < count THEN BusAddress(i + k) ELSE rest[i]] :
     k \in 0 .. 2, rest \in StoreTables \cup {ZeroConfig}}

InitStore ==
  /\ postedID = NoPost
  /\ RunPowerOn
  /\ dupCall = NoCall
  /\ invocations = 1
  /\ lastSaved = NoSave
  /\ deviceCount = MAX_SENSOR_COUNT
  /\ transmitterID = DEFAULT_TRANSMITTER_ID
  /\ temps = ZeroTemps
  /\ packet = <<>>
  /\ powerSaveMode = FALSE
  /\ \/ /\ pc = "boot"
        /\ eeprom \in StoreImages
        /\ sensorConfig = ZeroConfig
        /\ activeSensorCount = 1
        /\ sensorsConfigured = FALSE
        /\ loadReport = "None"
        /\ NoInvocation
     \/ /\ pc = "validating"
        /\ eeprom \in BootImages
        /\ activeSensorCount \in 1 .. MAX_SENSOR_COUNT
        /\ sensorConfig \in ValidatingTables(activeSensorCount)
        /\ sensorsConfigured = loadSensorConfig(eeprom, ZeroConfig, 1).sensorsConfigured
        /\ loadReport = loadSensorConfig(eeprom, ZeroConfig, 1).report
        /\ baselines = [i \in Devices(deviceCount) |-> 20 * UnitsPerDegree]
        /\ sample = baselines
        /\ identifiedSensor \in {k \in 0 .. 2 : sensorConfig[0] = BusAddress(k)}
        /\ pos = activeSensorCount
        /\ elapsed = POSITION_TIMEOUT_MS
        /\ buttonPressed = FALSE
        /\ hold = 0
  /\ eepromAtEntry = eeprom

NextStore ==
  \/ Validate
  \/ Return
  \/ Reboot
  \/ Boot

SpecStore == InitStore /\ [][NextStore]_vars

---------------------------------------------------------------------------
\* The name, the identifier and the power flag: loaded at boot from any
\* stored bytes, set over the configuration surface, next to a slot record
\* that setup saves

\* the 32 stored name bytes: erased; empty; "Ab"; "A" and a control byte;
\* "A" and a byte above 126; 32 printable bytes without a terminator; "A",
\* a terminator and erased bytes
StoredNames ==
  {[k \in 1 .. MAX_DEVICE_NAME_LENGTH |-> 255],
   NameArray(<<>>),
   NameArray(<<65, 98>>),
   NameArray(<<65, 7>>),
   NameArray(<<65, 200>>),
   [k \in 1 .. MAX_DEVICE_NAME_LENGTH |-> 97],
   [k \in 1 .. MAX_DEVICE_NAME_LENGTH |->
      IF k = 1 THEN 65 ELSE IF k = 2 THEN 0 ELSE 255]}

\* stored identifiers and power flag bytes
StoredIds == {7, 65535}
StoredFlags == {0, 1, 2, 255}

\* the slot records next to them: none, and a trusted one
MetaRecords == {ErasedEeprom, Record(EEPROM_MAGIC, DistinctTable, 2)}

MetaImages ==
  {EepromPut(
     EepromPut(
       EepromPut(rec, EEPROM_NAME_ADDR, name),
       EEPROM_TRANSMITTER_ID_ADDR, U16Bytes(id)),
     EEPROM_POWER_MODE_ADDR, <<flag>>) :
     rec \in MetaRecords, name \in StoredNames, id \in StoredIds,
     flag \in StoredFlags}

\* names a POST /api/config carries: "", "B", 32 characters
PostNames == {<<>>, <<66>>, [k \in 1 .. MAX_DEVICE_NAME_LENGTH |-> 99]}

\* any stored metadata at the first boot; the button is left alone
InitMeta ==
  /\ postedID = NoPost
  /\ RunPowerOn
  /\ dupCall = NoCall
  /\ eeprom \in MetaImages
  /\ eepromAtEntry = eeprom
  /\ invocations = MaxSetups
  /\ lastSaved = NoSave
  /\ deviceCount = 1
  /\ pc = "boot"
  /\ PowerOn
  /\ NoInvocation

MetaPost == ApiConfigPost(PostNames, {7})

NextMeta ==
  \/ Boot
  \/ MetaPost
  \/ Reboot

SpecMeta == InitMeta /\ [][NextMeta]_vars

\* the same surface on a device with one probe whose button is used for one
\* setup invocation: the slot record is saved by setup next to metadata set
\* before and after
RegionImages ==
  {EepromPut(rec, EEPROM_NAME_ADDR, NameArray(<<65, 98>>)) :
     rec \in MetaRecords}

InitRegions ==
  /\ postedID = NoPost
  /\ RunPowerOn
  /\ dupCall = NoCall
  /\ eeprom \in RegionImages
  /\ eepromAtEntry = eeprom
  /\ invocations = MaxSetups - 1
  /\ lastSaved = NoSave
  /\ deviceCount = 1
  /\ pc = "boot"
  /\ PowerOn
  /\ NoInvocation

RegionPost == ApiConfigPost({<<66>>}, {7})

NextRegions ==
  \/ Boot
  \/ RegionPost
  \/ EnterSetupMode
  \/ Scan
  \/ AmbientPass
  \/ AmbientTimeout
  \/ PositionPass
  \/ PositionTimeout
  \/ Validate
  \/ Return
  \/ Reboot

SpecRegions == InitRegions /\ [][NextRegions]_vars

---------------------------------------------------------------------------
\* The scheduler of loop(): boot, setup invocations, transmit cycles every
\* 30 s, deep sleep and wake, on a bus of one probe

\* ticks between two passes of loop() that are followed: 10 s, one tick less
\* than 20 s, 20 s
LoopDelays == {625, 1249, 1250}

\* the probes of a cycle all report 20.0 degC
RunReadings == {[i \in Devices(activeSensorCount) |-> 20 * UnitsPerDegree]}

\* a device never set up, and one holding a record of two probes whose
\* power-save mode was set on or off over the configuration surface
RunImages ==
  {ErasedEeprom} \cup
  {saveTransmitterConfig(Record(EEPROM_MAGIC, DistinctTable, 2),
                         DEFAULT_TRANSMITTER_ID, mode) : mode \in BOOLEAN}

InitRun ==
  /\ postedID = NoPost
  /\ RunPowerOn
  /\ dupCall = NoCall
  /\ eeprom \in RunImages
  /\ eepromAtEntry = eeprom
  /\ invocations = 0
  /\ lastSaved = NoSave
  /\ deviceCount = 1
  /\ pc = "boot"
  /\ PowerOn
  /\ NoInvocation

RunLoopPass == LoopPass(LoopDelays, RunReadings)

NextRun ==
  \/ Boot
  \/ EnterSetupMode
  \/ Scan
  \/ AmbientPass
  \/ AmbientTimeout
  \/ PositionPass
  \/ PositionTimeout
  \/ Validate
  \/ Return
  \/ RunLoopPass
  \/ Wake

SpecRun == InitRun /\ [][NextRun]_vars

---------------------------------------------------------------------------
\* isDuplicateSensor on its own: any table over two probe addresses and the
\* unassigned slot in its first three slots, any count and excludeIndex,
\* an address that is or is not in the table

DupTables ==
  {[i \in Slots |-> IF i < 3 THEN f[i] ELSE ZeroConfig[i]] :
     f \in [0 .. 2 -> {BusAddress(0), BusAddress(1), ZeroConfig[0]}]}

DupCounts == {0, 1, 2, 3, MAX_SENSOR_COUNT}

DupIndexes == {0, 1, 2, 3, MAX_SENSOR_COUNT}

InitDuplicate ==
  /\ postedID = NoPost
  /\ RunPowerOn
  /\ sensorConfig \in DupTables
  /\ activeSensorCount \in DupCounts
  /\ \E a \in {BusAddress(0), BusAddress(1), BusAddress(2)}, x \in DupIndexes :
       dupCall = [newAddr |-> a, excludeIndex |-> x, done |-> FALSE,
                  returned |-> FALSE]
  /\ eeprom = ErasedEeprom
  /\ eepromAtEntry = eeprom
  /\ invocations = 1
  /\ lastSaved = NoSave
  /\ deviceCount = 3
  /\ sensorsConfigured = FALSE
  /\ transmitterID = DEFAULT_TRANSMITTER_ID
  /\ temps = ZeroTemps
  /\ loadReport = "NoRecord"
  /\ packet = <<>>
  /\ powerSaveMode = FALSE
  /\ pc = "position"
  /\ NoInvocation

\* the call isDuplicateSensor(newAddr, excludeIndex) of line 460
DuplicateCall ==
  /\ ~dupCall.done
  /\ dupCall' = [dupCall EXCEPT
                   !.done = TRUE,
                   !.returned = isDuplicateSensor(sensorConfig,
                                                  activeSensorCount,
                                                  dupCall.newAddr,
                                                  dupCall.excludeIndex)]
  /\ UNCHANGED <<eeprom, sensorConfig, activeSensorCount, sensorsConfigured,
                 loadReport, pc, deviceCount, baselines, sample,
                 identifiedSensor, pos, elapsed, buttonPressed, eepromAtEntry,
                 invocations, lastSaved, temps, transmitterID, packet,
                 powerSaveMode, hold, postedID>>
  /\ UNCHANGED runVars

NextDuplicate == DuplicateCall

SpecDuplicate == InitDuplicate /\ [][NextDuplicate]_vars

---------------------------------------------------------------------------
\* The scheduler of loop() around the wrap of millis(): a configured device
\* with power-save mode off that has been running for 49 days

\* ticks left before the wrap when the latest cycle ended: 1, 10 s, 20 s,
\* 30 s, 40 s
TicksBeforeWrap == {1, 625, 1250, 1875, 2500}

\* packets sent by then
PacketsBeforeWrap == 143000

\* as LoopDelays, and a pass 60 s after the pass before
ClockDelays == LoopDelays \cup {2 * TransmitIntervalTicks}

InitClock ==
  /\ postedID = NoPost
  /\ dupCall = NoCall
  /\ deviceName = DefaultName
  /\ \E k \in TicksBeforeWrap :
       /\ now = ClockModulus - k
       /\ lastTransmitTime = ClockModulus - k
  /\ totalPackets = PacketsBeforeWrap
  /\ sinceCycle = 0
  /\ runTime = 0
  /\ sensorConfig = DistinctTable
  /\ activeSensorCount = 2
  /\ eeprom = saveTransmitterConfig(
                saveSensorConfig(ErasedEeprom, sensorConfig, activeSensorCount),
                DEFAULT_TRANSMITTER_ID, FALSE)
  /\ eepromAtEntry = eeprom
  /\ invocations = 0
  /\ lastSaved = NoSave
  /\ deviceCount = 2
  /\ sensorsConfigured = TRUE
  /\ transmitterID = DEFAULT_TRANSMITTER_ID
  /\ temps = [i \in Slots |-> IF i < activeSensorCount
                                THEN 20 * UnitsPerDegree ELSE 0]
  /\ packet = BuildPacket(transmitterID, activeSensorCount, temps)
  /\ loadReport = "Loaded"
  /\ powerSaveMode = FALSE
  /\ pc = "loop"
  /\ NoInvocation

ClockLoopPass == LoopPass(ClockDelays, RunReadings)

NextClock == ClockLoopPass

SpecClock == InitClock /\ [][NextClock]_vars

---------------------------------------------------------------------------
\* Reading a packet and a stored record back, for the properties below

FirstIndex(cs, c) ==
  IF \E k \in 1 .. Len(cs) : cs[k] = c
  THEN CHOOSE k \in 1 .. Len(cs) : cs[k] = c /\ \A m \in 1 .. (k - 1) : cs[m] # c
  ELSE 0

RECURSIVE SplitAtCommas(_)
SplitAtCommas(cs) ==
  LET k == FirstIndex(cs, ",")
  IN  IF k = 0 THEN <<cs>>
      ELSE <<SubSeq(cs, 1, k - 1)>> \o SplitAtCommas(SubSeq(cs, k + 1, Len(cs)))

\* the comma-separated fields after the first colon of a packet
FieldsAfterColon(p) ==
  SplitAtCommas(SubSeq(p, FirstIndex(p, ":") + 1, Len(p)))

\* the characters before the first colon
BeforeColon(p) == SubSeq(p, 1, FirstIndex(p, ":") - 1)

DigitChars == {"0", "1", "2", "3", "4", "5", "6", "7", "8", "9"}

Unsigned(f) == IF f # <<>> /\ f[1] = "-" THEN Tail(f) ELSE f

\* an optional sign, digits, a point, one digit
IsNumericField(f) ==
  LET b == Unsigned(f)
  IN  /\ Len(b) >= 3
      /\ b[Len(b) - 1] = "."
      /\ b[Len(b)] \in DigitChars
      /\ \A k \in 1 .. (Len(b) - 2) : b[k] \in DigitChars

DigitValue(c) == CHOOSE d \in 0 .. 9 : DigitChar(d) = c

RECURSIVE DigitsValue(_)
DigitsValue(cs) ==
  IF cs = <<>> THEN 0
  ELSE 10 * DigitsValue(SubSeq(cs, 1, Len(cs) - 1)) + DigitValue(cs[Len(cs)])

\* the magnitude of a numeric field, in tenths
FieldTenths(f) ==
  LET b == Unsigned(f)
  IN  10 * DigitsValue(SubSeq(b, 1, Len(b) - 2)) + DigitValue(b[Len(b)])

\* field f shows reading v to the nearest tenth, with v's sign
ShowsReading(f, v) ==
  /\ IsNumericField(f)
  /\ 2 * Abs(FieldTenths(f) * UnitsPerTenth - Abs(v)) <= UnitsPerTenth
  /\ (f[1] = "-") <=> (v < 0)

ZeroPlaceholder == <<"0", ".", "0">>

Sent == packet # <<>>

\* the stored slot table, count byte and magic word
StoredTable(mem) ==
  [i \in Slots |->
     [j \in 1 .. ADDRESS_BYTES |-> mem[EEPROM_SENSOR_ADDR + ADDRESS_BYTES * i + j - 1]]]

StoredCount(mem) == mem[EEPROM_SENSOR_COUNT_ADDR]

StoredMagic(mem) == mem[EEPROM_MAGIC_ADDR] + 256 * mem[EEPROM_MAGIC_ADDR + 1]

PairwiseDistinct(table, count) ==
  \A i \in Slots : \A j \in Slots :
    (i < j /\ j < count) => table[i] # table[j]

InInvocation == pc \in {"ambient", "position", "validating", "saved", "aborted"}

---------------------------------------------------------------------------
\* Properties

\* C1: whenever saveSensorConfig has been reached, the addresses in
\* sensorConfig.sensors[0 .. activeSensorCount-1], and the ones it stored,
\* are pairwise distinct.
C1_SavedSlotsDistinct ==
  pc = "saved" =>
    /\ PairwiseDistinct(sensorConfig, activeSensorCount)
    /\ PairwiseDistinct(StoredTable(eeprom), StoredCount(eeprom))

\* a save of two probes after a touch on the probe already assigned was rejected
C1_Witness ==
  /\ pc = "saved"
  /\ activeSensorCount = 2
  /\ baselines = [i \in Devices(2) |-> 20 * UnitsPerDegree]
  /\ deviceCount = 2

\* C2: saveSensorConfig is reached only after the ambient probe was identified
\* and written to Slot 0 in the same invocation, and the count that is saved
\* is in 1 .. 10.
C2_SavedHasAmbient ==
  pc = "saved" =>
    /\ identifiedSensor \in Devices(deviceCount)
    /\ sensorConfig[0] = BusAddress(identifiedSensor)
    /\ StoredTable(eeprom)[0] = BusAddress(identifiedSensor)
    /\ activeSensorCount \in 1 .. MAX_SENSOR_COUNT
    /\ StoredCount(eeprom) = activeSensorCount
    /\ StoredMagic(eeprom) = EEPROM_MAGIC

\* a save of all ten slots made over an erased EEPROM, the eleventh probe of
\* the bus left unassigned
C2_Witness ==
  /\ pc = "saved"
  /\ eepromAtEntry = ErasedEeprom
  /\ identifiedSensor = 0
  /\ activeSensorCount = MAX_SENSOR_COUNT
  /\ deviceCount > MAX_SENSOR_COUNT

\* C3: after saveSensorConfig of a table with 1 .. 10 pairwise distinct
\* assigned slots, the next boot's loadSensorConfig restores the same ten
\* slots and the same count and marks the device configured.
C3_RoundTrip ==
  [][(pc = "boot" /\ lastSaved # NoSave) =>
       /\ sensorConfig' = lastSaved.sensorConfig
       /\ activeSensorCount' = lastSaved.activeSensorCount
       /\ sensorsConfigured'
       /\ loadReport' = "Loaded"]_vars

\* a boot that restored ten slots saved over an earlier two-slot record
C3_Witness ==
  /\ loadReport = "Loaded"
  /\ pc = "loop"
  /\ lastSaved # NoSave
  /\ sensorConfig = lastSaved.sensorConfig
  /\ activeSensorCount = MAX_SENSOR_COUNT
  /\ sensorConfig[9] = BusAddress(11)

Untrusted(mem) ==
  \/ StoredMagic(mem) # EEPROM_MAGIC
  \/ StoredCount(mem) < 1
  \/ StoredCount(mem) > MAX_SENSOR_COUNT

\* C4: after loadSensorConfig has read a record whose magic differs from the
\* constant or whose count is 0 or above 10, the configuration in memory is
\* the safe default (count 1, the zero-initialised table) and the device is
\* unconfigured.
C4_UntrustedGivesDefault ==
  [][(pc = "boot" /\ Untrusted(eeprom)) =>
       /\ activeSensorCount' = 1
       /\ sensorConfig'[0] = ZeroConfig[0]
       /\ ~sensorsConfigured']_vars

Corrupt(mem) ==
  /\ ~Untrusted(mem)
  /\ ~PairwiseDistinct(StoredTable(mem), StoredCount(mem))

\* C5: while the stored record has a matching magic, a count in 1 .. 10 and
\* two equal addresses among its first count slots, the device booted from it
\* is unconfigured and loadSensorConfig reported the duplicate (not the
\* missing record); the device becomes configured again only by the save step
\* of a setup invocation.
C5_CorruptStaysUnconfigured ==
  /\ [](Corrupt(eeprom) => ~sensorsConfigured)
  /\ []((Corrupt(eeprom) /\ loadReport # "None") => loadReport = "Duplicates")
  /\ [][(loadReport = "Duplicates" /\ ~sensorsConfigured /\ sensorsConfigured')
          => (pc = "validating" /\ pc' = "saved" /\ ~Corrupt(eeprom'))]_vars

\* a setup invocation on a device booted from a duplicate record is aborted
\* and the device is still unconfigured
C5_Witness ==
  /\ Corrupt(eeprom)
  /\ loadReport = "Duplicates"
  /\ pc = "aborted"
  /\ ~sensorsConfigured

\* C6: for every activeSensorCount in 1 .. 10, every reading and every
\* transmitter id, the packet has exactly 10 comma-separated numeric fields
\* after the colon and does not end in a comma.
C6_TenFields ==
  Sent =>
    /\ Len(FieldsAfterColon(packet)) = MAX_SENSOR_COUNT
    /\ \A k \in 1 .. Len(FieldsAfterColon(packet)) :
         IsNumericField(FieldsAfterColon(packet)[k])
    /\ packet[Len(packet)] # ","
    /\ BeforeColon(packet) = <<"T", "X">> \o DecimalChars(transmitterID)

\* a packet of a single-probe device with identifier 65535 and the probe
\* disconnected
C6_Witness ==
  /\ Sent
  /\ activeSensorCount = 1
  /\ transmitterID = 65535
  /\ temps[0] = -127 * UnitsPerDegree

\* C7 as stated: fields activeSensorCount .. 9, counted from 0, are the zero
\* placeholder whatever the reading.
C7_FieldsFromCountAreZero ==
  Sent =>
    \A k \in activeSensorCount .. 9 :
      FieldsAfterColon(packet)[k + 1] = ZeroPlaceholder

\* C7 (amended): the position fields of slots activeSensorCount .. 9, which
\* are fields activeSensorCount-1 .. 8 counted from 0, are the zero
\* placeholder whatever the reading; field 9 is the ambient reading.
C7_UnassignedPositionsAreZero ==
  Sent =>
    /\ Len(FieldsAfterColon(packet)) = MAX_SENSOR_COUNT
    /\ \A k \in (activeSensorCount - 1) .. 8 :
         FieldsAfterColon(packet)[k + 1] = ZeroPlaceholder

\* a packet of a three-probe device none of whose readings prints as 0.0
C7_Witness ==
  /\ Sent
  /\ activeSensorCount = 3
  /\ \A i \in 0 .. 2 : ~ShowsReading(ZeroPlaceholder, temps[i])

ExamplePacket ==
  <<"T", "X", "7", ":", "1", "2", ".", "3", ",", "1", "8", ".", "0", ",",
    "0", ".", "0", ",", "0", ".", "0", ",", "0", ".", "0", ",", "0", ".", "0", ",",
    "0", ".", "0", ",", "0", ".", "0", ",", "0", ".", "0", ",",
    "2", "5", ".", "1">>

IsExample ==
  /\ transmitterID = 7
  /\ activeSensorCount = 3
  /\ temps[0] = 2008
  /\ temps[1] = 984
  /\ temps[2] = 1440

\* C8: field k after the colon (k = 1 .. activeSensorCount-1) shows the
\* reading of Slot k and the 10th field the reading of Slot 0; count 3 with
\* 25.1, 12.3, 18.0 and id 7 gives TX7:12.3,18.0,0.0,0.0,0.0,0.0,0.0,0.0,0.0,25.1.
C8_FieldsShowSlots ==
  Sent =>
    /\ Len(FieldsAfterColon(packet)) = MAX_SENSOR_COUNT
    /\ \A k \in 1 .. (activeSensorCount - 1) :
         ShowsReading(FieldsAfterColon(packet)[k], temps[k])
    /\ ShowsReading(FieldsAfterColon(packet)[MAX_SENSOR_COUNT], temps[0])
    /\ IsExample => packet = ExamplePacket

\* the packet of the example
C8_Witness == Sent /\ IsExample /\ packet = ExamplePacket

\* the candidates whose sample deviates from the baseline by more than 1.5
Deviating(smp, base, count) ==
  {j \in Devices(count) : smp[j] - base[j] > TEMP_CHANGE_THRESHOLD
                           \/ base[j] - smp[j] > TEMP_CHANGE_THRESHOLD}

\* C9: a sampling pass of findSensorByTouch in which no candidate deviates
\* from its baseline by more than 1.5 returns nothing and the wait goes on; the
\* first pass in which some candidate does returns the lowest index among them
\* (a deviation of exactly 1.5 does not count); baselines 20.0, 20.0, 20.0 with
\* index 1 reading 22.0 return 1.
C9_TouchResolution ==
  [][(pc = "ambient" /\ elapsed < AMBIENT_TIMEOUT_MS) =>
       LET hit == Deviating(sample', baselines, deviceCount)
       IN  /\ (hit = {}) => (pc' = "ambient" /\ identifiedSensor' = -1)
           /\ (hit # {}) =>
                /\ pc' = "position"
                /\ identifiedSensor' \in hit
                /\ \A j \in hit : identifiedSensor' <= j
           /\ (/\ baselines = [i \in Devices(3) |-> 20 * UnitsPerDegree]
               /\ sample' = [i \in Devices(3) |->
                               IF i = 1 THEN 22 * UnitsPerDegree
                               ELSE 20 * UnitsPerDegree])
                => identifiedSensor' = 1]_vars

\* index 1 returned in the second pass, index 2 deviating in the same pass and
\* index 0 by exactly 1.5
C9_Witness ==
  /\ pc = "position"
  /\ identifiedSensor = 1
  /\ deviceCount >= 3
  /\ baselines[0] = 20 * UnitsPerDegree
  /\ sample[0] = 20 * UnitsPerDegree + TEMP_CHANGE_THRESHOLD
  /\ sample[1] = 22 * UnitsPerDegree
  /\ baselines[2] = 20 * UnitsPerDegree
  /\ sample[2] = 22 * UnitsPerDegree

\* C10: while no ambient probe has been identified in a setup invocation
\* (no device enumerated, or no touch within the 30 s), the invocation is
\* waiting for the ambient touch or has ended in Aborted, and the EEPROM is
\* what it was when the invocation began; no step of such an invocation
\* writes a slot of sensorConfig.
C10_AmbientMandatory ==
  /\ []((InInvocation /\ (deviceCount < 1 \/ identifiedSensor < 0)) =>
          /\ pc \in {"ambient", "aborted"}
          /\ eeprom = eepromAtEntry
          /\ (pc = "ambient") =>
               (elapsed < AMBIENT_TIMEOUT_MS \/ ENABLED AmbientTimeout))
  /\ [][(pc \in {"setup", "ambient"} /\ identifiedSensor' < 0) =>
          (sensorConfig' = sensorConfig /\ eeprom' = eeprom)]_vars

\* the ambient wait timed out on a device that holds a valid two-slot record
C10_Witness ==
  /\ pc = "aborted"
  /\ deviceCount >= 1
  /\ identifiedSensor < 0
  /\ elapsed >= AMBIENT_TIMEOUT_MS
  /\ StoredMagic(eeprom) = EEPROM_MAGIC
  /\ StoredTable(eeprom) = DistinctTable
  /\ StoredCount(eeprom) = 2

\* C11: an invocation that ends in Aborted leaves the device not marked
\* configured, whatever the state before it.
C11_AbortedNotConfigured ==
  pc = "aborted" => ~sensorsConfigured

\* C12: outside a running setup invocation, after boot and after any
\* invocations ending in Saved or Aborted, activeSensorCount is in 1 .. 10.
C12_CountInRangeOutsideSetup ==
  (pc = "loop" /\ loadReport # "None") =>
    activeSensorCount \in 1 .. MAX_SENSOR_COUNT

\* the addresses probes on the bus can have (allSensors holds 16)
ProbeAddresses == {BusAddress(i) : i \in 0 .. 15}

\* C13 as stated: in every state after the boot's load, activeSensorCount >= 1
\* implies that Slot 0 holds the address of a probe.
C13_SlotZeroAssigned ==
  (loadReport # "None" /\ activeSensorCount >= 1) =>
    sensorConfig[0] \in ProbeAddresses

\* C13 (amended): in every state in which the device is marked configured and
\* activeSensorCount >= 1, Slot 0 holds the address of a probe; the state a
\* boot without a trusted record produces has activeSensorCount = 1 and is
\* not marked configured.
C13_ConfiguredSlotZeroAssigned ==
  /\ (sensorsConfigured /\ activeSensorCount >= 1) =>
       sensorConfig[0] \in ProbeAddresses
  /\ (loadReport \in {"NoRecord", "InvalidCount"} /\ pc = "loop"
        /\ invocations = 0) =>
       (activeSensorCount = 1 /\ ~sensorsConfigured)

\* a device set up over an erased EEPROM and rebooted
C13_Witness ==
  /\ sensorsConfigured
  /\ loadReport = "Loaded"
  /\ activeSensorCount = 2
  /\ sensorConfig[0] = BusAddress(1)
  /\ pc = "loop"

\* C19: no step of a setup invocation before the save step changes the slot
\* table or activeSensorCount, so an invocation that does not reach the save
\* step leaves them as they were.
C19_ConfigurationUntouchedBeforeSave ==
  [][(pc \in {"setup", "ambient", "position"}) =>
       (sensorConfig' = sensorConfig /\ activeSensorCount' = activeSensorCount)]_vars

\* the probes whose sample smp deviates and whose address a Slot in [0, pos)
\* holds, and the deviating probes no such Slot holds
DuplicateTouched(smp) ==
  {j \in Deviating(smp, baselines, deviceCount) :
     \E k \in Slots : k < pos /\ sensorConfig[k] = BusAddress(j)}

NewTouched(smp) ==
  Deviating(smp, baselines, deviceCount) \ DuplicateTouched(smp)

\* a pass of the position wait that did not end in the save gesture
WaitingPass ==
  pc = "position" /\ elapsed < POSITION_TIMEOUT_MS /\ ~buttonPressed'

\* C14: a pass at position p in which the only probes touched are ones whose
\* address a Slot in [0, p) holds writes no Slot, leaves activeSensorCount,
\* stays at position p, sets the baseline of each such probe to its reading
\* (and no other baseline) and restarts the 60 s window.
C14_DuplicateRejected ==
  [][(WaitingPass /\ DuplicateTouched(sample') # {} /\ NewTouched(sample') = {})
       => /\ sensorConfig' = sensorConfig
          /\ activeSensorCount' = activeSensorCount
          /\ pc' = "position"
          /\ pos' = pos
          /\ \A j \in Devices(deviceCount) :
               baselines'[j] = IF j \in DuplicateTouched(sample')
                               THEN sample'[j] ELSE baselines[j]
          /\ elapsed' <= PassMs]_vars

\* the ambient probe was touched again at position 1 and rejected: its
\* baseline is the new reading and the window has just restarted
C14_Witness ==
  /\ pc = "position"
  /\ pos = 1
  /\ activeSensorCount = 1
  /\ identifiedSensor = 0
  /\ baselines[0] = 20 * UnitsPerDegree
  /\ sample[0] = 20 * UnitsPerDegree
  /\ elapsed = PassMs
  /\ hold = BUTTON_SAVE_PRESS_MS

\* C15: at every position p in 1 .. 9 a pass in which the button is held for
\* more than 5 s goes to the validation without writing Slot p, and the save
\* that follows stores activeSensorCount = p; a pass in which it is released
\* before 5 s does not end the wait by the save gesture.
C15_SaveHold ==
  /\ [][(pc = "position" /\ elapsed < POSITION_TIMEOUT_MS) =>
          /\ (hold' > BUTTON_SAVE_PRESS_MS) =>
               /\ pc' = "validating"
               /\ buttonPressed'
               /\ sensorConfig' = sensorConfig
               /\ activeSensorCount' = pos
          /\ (hold' < BUTTON_SAVE_PRESS_MS) => ~buttonPressed']_vars
  /\ []((pc = "saved" /\ buttonPressed) =>
          (activeSensorCount = pos /\ StoredCount(eeprom) = pos))

Lowest(S) == CHOOSE j \in S : \A k \in S : j <= k

\* C17: at position p activeSensorCount = p and p is in 1 .. 9; a pass in
\* which a probe is touched whose address no Slot in [0, p) holds writes that
\* address to Slot p, sets activeSensorCount to p + 1 and goes on to position
\* p + 1, or to the validation when p = 9; the Slots below activeSensorCount
\* hold probe addresses and the ones from it on were not written.
C17_PositionAssigned ==
  /\ []((pc = "position") =>
          (activeSensorCount = pos /\ pos \in 1 .. (MAX_SENSOR_COUNT - 1)))
  /\ []((pc \in {"position", "validating", "saved"}) =>
          \A i \in Slots :
            IF i < activeSensorCount
            THEN sensorConfig[i] \in ProbeAddresses
            ELSE sensorConfig[i] = StoredTable(eepromAtEntry)[i]
                 \/ sensorConfig[i] = ZeroConfig[i])
  /\ [][(WaitingPass /\ NewTouched(sample') # {}) =>
          /\ sensorConfig' =
               [sensorConfig EXCEPT ![pos] = BusAddress(Lowest(NewTouched(sample')))]
          /\ activeSensorCount' = pos + 1
          /\ pos' = pos + 1
          /\ pc' = IF pos = MAX_SENSOR_COUNT - 1 THEN "validating"
                   ELSE "position"]_vars

\* position 9 was assigned and the loop over the positions has ended
C17_Witness ==
  /\ pc = "validating"
  /\ pos = MAX_SENSOR_COUNT
  /\ activeSensorCount = MAX_SENSOR_COUNT
  /\ ~buttonPressed
  /\ sensorConfig[MAX_SENSOR_COUNT - 1] = BusAddress(MAX_SENSOR_COUNT - 1)

\* the invocation has ended
Ended == pc \in {"saved", "aborted"}

\* a pass of the position wait that rejects a duplicate touch and assigns
\* nothing
DuplicateRejection ==
  /\ WaitingPass
  /\ DuplicateTouched(sample') # {}
  /\ pc' = "position"
  /\ pos' = pos

\* C18 as stated: every setup invocation ends in Saved or Aborted, whatever
\* the touches, duplicate touches and button events.
C18_AlwaysEnds == (pc = "setup") ~> Ended

\* C18 (amended): every setup invocation in which duplicate touches are
\* rejected only finitely often ends in Saved or Aborted.
C18_EndsUnlessDuplicatesForever ==
  (<>[][~DuplicateRejection]_vars) => ((pc = "setup") ~> Ended)

\* an invocation that rejected a duplicate touch of the ambient probe and
\* then saved when the window of position 1 ran out
C18_Witness ==
  /\ pc = "saved"
  /\ elapsed >= POSITION_TIMEOUT_MS
  /\ identifiedSensor = 0
  /\ activeSensorCount = 1
  /\ baselines[0] = 20 * UnitsPerDegree

\* C20: the identifier the boot's loadTransmitterConfig leaves equals the one
\* last set through POST /api/config, for every identifier in 0 .. 65535,
\* and a packet built then carries the current identifier after TX.
C20_IdentityRoundTrip ==
  /\ [][(pc = "boot" /\ postedID # NoPost) => transmitterID' = postedID]_vars
  /\ [][(packet' # packet /\ packet' # <<>>) =>
          BeforeColon(packet') = <<"T", "X">> \o DecimalChars(transmitterID)]_vars

---------------------------------------------------------------------------
\* The stored name: the bytes before the first zero byte
StoredName(mem) ==
  LET bytes == EepromGet(mem, EEPROM_NAME_ADDR, MAX_DEVICE_NAME_LENGTH)
  IN  SubSeq(bytes, 1, StrEnd(bytes) - 1)

StoredId(mem) == U16Value(EepromGet(mem, EEPROM_TRANSMITTER_ID_ADDR, 2))

StoredFlag(mem) == mem[EEPROM_POWER_MODE_ADDR]

\* C21: the load at boot falls back per field. A stored name that is empty
\* or holds a byte outside printable ASCII gives the default name, a stored
\* identifier 0xFFFF gives identifier 1, a stored power flag outside {0, 1}
\* gives power-save off, whatever the other fields and the slot record hold.
C21_MetadataFallback ==
  [][pc = "boot" =>
       /\ (\/ StoredName(eeprom) = <<>>
           \/ \E k \in 1 .. Len(StoredName(eeprom)) :
                StoredName(eeprom)[k] < 32 \/ StoredName(eeprom)[k] > 126)
          => deviceName' = DefaultName
       /\ StoredId(eeprom) = 65535 => transmitterID' = DEFAULT_TRANSMITTER_ID
       /\ StoredFlag(eeprom) \notin {0, 1} => powerSaveMode' = FALSE]_vars

---------------------------------------------------------------------------
\* a step in which a packet is handed to the radio
CycleStep == totalPackets' = totalPackets + 1

\* a step that suspends the device
SleepStep == pc # "sleep" /\ pc' = "sleep"

\* C22: a transmit cycle starts only on a device marked configured and only
\* when at least 30 s of real time have passed since the end of the cycle
\* before it or, without one, since the boot; so an unconfigured device hands
\* no packet to the radio and two cycles of one power cycle are at least
\* 30 s apart.
C22_TransmitGuard ==
  [][CycleStep =>
       /\ sensorsConfigured
       /\ sinceCycle + (runTime' - runTime) >= TransmitIntervalTicks]_vars

\* two cycles in one power cycle, the second exactly 30 s after the first
C22_Witness ==
  /\ totalPackets = 2
  /\ sinceCycle = 0
  /\ now = 2 * TransmitIntervalTicks
  /\ pc = "loop"

\* C23: the device enters deep sleep exactly in the steps that complete a
\* transmit cycle with power-save mode on: never with power-save mode off,
\* never while unconfigured, never before the packet of the cycle was handed
\* to the radio.
C23_SleepAfterCycle ==
  /\ [][SleepStep <=> (powerSaveMode /\ CycleStep)]_vars
  /\ [][SleepStep => (sensorsConfigured /\ packet' # <<>>)]_vars

\* the device sleeps after a cycle
C23_Witness ==
  /\ pc = "sleep"
  /\ powerSaveMode
  /\ totalPackets = 1
  /\ packet # <<>>

\* C24: the packet counter never decreases and changes only by one, across
\* transmit cycles, deep sleep and wake.
C24_CounterMonotonic ==
  [][totalPackets' = totalPackets \/ totalPackets' = totalPackets + 1]_vars

\* C26: every packet handed to the radio has exactly 10 fields after the
\* colon, after any boot, setup invocation and transmit cycles.
C26_TenFieldsAlways ==
  packet # <<>> => Len(FieldsAfterColon(packet)) = MAX_SENSOR_COUNT

---------------------------------------------------------------------------
\* the stored fields as <<first address, number of bytes>>: magic word, slot
\* table, count, name, identifier, power flag
FieldRanges ==
  {<<EEPROM_MAGIC_ADDR, 2>>,
   <<EEPROM_SENSOR_ADDR, MAX_SENSOR_COUNT * ADDRESS_BYTES>>,
   <<EEPROM_SENSOR_COUNT_ADDR, 1>>,
   <<EEPROM_NAME_ADDR, MAX_DEVICE_NAME_LENGTH>>,
   <<EEPROM_TRANSMITTER_ID_ADDR, 2>>,
   <<EEPROM_POWER_MODE_ADDR, 1>>}

RangesDisjoint ==
  \A r, q \in FieldRanges :
    r # q => (r[1] + r[2] <= q[1] \/ q[1] + q[2] <= r[1])

NameBytes(mem) == EepromGet(mem, EEPROM_NAME_ADDR, MAX_DEVICE_NAME_LENGTH)

\* C28: the persisted regions are independent. The save of the slot mapping
\* leaves the stored name, identifier and power flag as they were; a save of
\* the name or of the identifier and power flag leaves the magic word, the
\* slot table and the count as they were; the byte ranges of the fields do
\* not overlap; and after metadata is set on a configured device the stored
\* record is still one that the next boot loads as configured.
C28_RegionsIndependent ==
  /\ RangesDisjoint
  /\ [][pc = "validating" =>
          /\ NameBytes(eeprom') = NameBytes(eeprom)
          /\ StoredId(eeprom') = StoredId(eeprom)
          /\ StoredFlag(eeprom') = StoredFlag(eeprom)]_vars
  /\ [][pc = "loop" =>
          /\ StoredMagic(eeprom') = StoredMagic(eeprom)
          /\ StoredTable(eeprom') = StoredTable(eeprom)
          /\ StoredCount(eeprom') = StoredCount(eeprom)]_vars
  /\ [][(pc = "loop" /\ sensorsConfigured /\ eeprom' # eeprom) =>
          loadSensorConfig(eeprom', ZeroConfig, 1).sensorsConfigured]_vars

\* a device on which setup saved a record and name and identifier were
\* posted has booted again as configured
C28_Witness ==
  /\ pc = "loop"
  /\ sensorsConfigured
  /\ loadReport = "Loaded"
  /\ lastSaved # NoSave
  /\ StoredName(eeprom) = <<66>>
  /\ StoredId(eeprom) = 7
  /\ postedID = 7

---------------------------------------------------------------------------
\* C25: on a bus whose probes have pairwise distinct addresses the failure
\* branch of the validation is not taken: whenever an invocation reaches the
\* validation, validateUniqueConfig holds of the table and count built, the
\* step that follows saves, and an invocation that ended in Aborted is one
\* in which no ambient probe was identified.
C25_ValidationNeverFails ==
  /\ \A i, j \in 0 .. 15 : i # j => BusAddress(i) # BusAddress(j)
  /\ [](pc = "validating" =>
          validateUniqueConfig(sensorConfig, activeSensorCount))
  /\ [][pc = "validating" => pc' = "saved"]_vars
  /\ [](pc = "aborted" => identifiedSensor < 0)

\* an invocation on a device whose RAM held a table with two equal slots
\* assigned both probes and saved
C25_Witness ==
  /\ pc = "saved"
  /\ loadReport = "Duplicates"
  /\ identifiedSensor >= 0
  /\ activeSensorCount = 2
  /\ sensorConfig[0] # sensorConfig[1]

---------------------------------------------------------------------------
\* C27: isDuplicateSensor(address, beforeSlot) returns true exactly when the
\* address equals, byte for byte, the address in some slot whose index is
\* below activeCount and below beforeSlot; slots from beforeSlot on and slots
\* from activeCount on are not compared; the call leaves the configuration
\* as it was.
C27_DuplicateExactly ==
  /\ [](dupCall.done =>
          (dupCall.returned <=>
             \E k \in Slots :
               /\ k < activeSensorCount
               /\ k < dupCall.excludeIndex
               /\ \A b \in 1 .. ADDRESS_BYTES :
                    sensorConfig[k][b] = dupCall.newAddr[b]))
  /\ [][sensorConfig' = sensorConfig /\
         activeSensorCount' = activeSensorCount]_vars

\* the address is in an assigned slot, but only at beforeSlot or later: the
\* call returned false
C27_Witness ==
  /\ dupCall.done
  /\ ~dupCall.returned
  /\ dupCall.excludeIndex = 1
  /\ activeSensorCount = 3
  /\ sensorConfig[1] = dupCall.newAddr
  /\ sensorConfig[0] # dupCall.newAddr

---------------------------------------------------------------------------
\* C29: with the clock and lastTransmitTime modulo 2^32 ms, a pass of loop()
\* on a configured device starts a transmit cycle exactly when 30 s of real
\* time have passed since the latest cycle, before, across and after the
\* wrap of the clock: the wrap brings no early cycle and does not stop the
\* cycles.
C29_IntervalAcrossWrap ==
  [][(pc = "loop" /\ runTime' # runTime /\ sensorsConfigured) =>
       (CycleStep <=>
          sinceCycle + (runTime' - runTime) >= TransmitIntervalTicks)]_vars

\* a cycle has run after the wrap, 30 s after one that ended before it
C29_Witness ==
  /\ totalPackets = PacketsBeforeWrap + 1
  /\ runTime = TransmitIntervalTicks
  /\ now < TransmitIntervalTicks
  /\ lastTransmitTime = now
  /\ sinceCycle = 0

====
